---- MODULE Spec2Model ----
(***************************************************************************)
(* Model of tools/json_converter.py: a one-shot script that opens          *)
(* ../resistance.json, parses it with json.load, prints the header         *)
(* "article;resistance" and then one "<r[0]>;<r[1]>" line per record, and  *)
(* leaves through sys.exit(0) inside the with block.                       *)
(*                                                                         *)
(* One action per statement of the script.  The environment (the state of  *)
(* the input file and the JSON value it holds) is chosen in Init.          *)
(* A JSON string used as a record behaves under r[0], r[1] exactly as an   *)
(* array of one-character strings, so string records are covered by the    *)
(* array records.  Writes to standard output are assumed not to fail.      *)
(***************************************************************************)
EXTENDS Integers, Sequences, FiniteSets

VARIABLES file, doc, pc, handle, data, i, r, article, resistance, stdout,
          exc, status

vars == <<file, doc, pc, handle, data, i, r, article, resistance, stdout,
          exc, status>>

\* Bounds of the explored inputs.
MaxRecords == 2
MaxArity == 3

(***************************************************************************)
(* JSON values as json.load returns them.                                  *)
(***************************************************************************)
JStr(s) == [t |-> "str", v |-> s]
JInt(n) == [t |-> "int", v |-> n]
JArray(s) == [t |-> "array", v |-> s]
JNumberRecord == [t |-> "number", v |-> <<>>]
JObjectRecord == [t |-> "object", v |-> <<>>]

\* The scalar values records are built from: a string and a number.
Scalars == {JStr("R1"), JInt(220)}

RECURSIVE SeqsUpTo(_, _)
SeqsUpTo(S, n) ==
    IF n = 0 THEN {<<>>}
    ELSE LET shorter == SeqsUpTo(S, n - 1)
         IN  shorter \cup {Append(s, x) : s \in {q \in shorter : Len(q) = n - 1}, x \in S}

\* A record of the document: an array of scalars, or a value that is not a
\* sequence at all (a number, an object).
Records == {JArray(s) : s \in SeqsUpTo(Scalars, MaxArity)}
             \cup {JNumberRecord, JObjectRecord}

\* The top-level value: an array of records, or a value that cannot be
\* iterated (a number).
Documents == {JArray(s) : s \in SeqsUpTo(Records, MaxRecords)}
               \cup {JInt(7)}

\* The states the input path can be in when the script starts: absent,
\* unreadable, not UTF-8, not JSON, or holding the JSON value doc.
FileStates == {"missing", "denied", "badenc", "badjson", "json"}

\* Names not yet bound, and the absence of a pending exception.
Unbound == [t |-> "unbound", v |-> 0]
NoExc == [t |-> "none", code |-> 0]
Raise(name) == [t |-> name, code |-> 0]
SystemExit(code) == [t |-> "SystemExit", code |-> code]

(***************************************************************************)
(* format(x, "") as the f-string of line 17 applies it.                    *)
(***************************************************************************)
Digit(d) == <<"0", "1", "2", "3", "4", "5", "6", "7", "8", "9">>[d + 1]

RECURSIVE NatStr(_)
NatStr(n) == IF n < 10 THEN Digit(n) ELSE NatStr(n \div 10) \o Digit(n % 10)

IntStr(n) == IF n < 0 THEN "-" \o NatStr(-n) ELSE NatStr(n)

Format(x) ==
    CASE x.t = "str" -> x.v
      [] x.t = "int" -> IntStr(x.v)

Header == "article;resistance"

\* print(): one newline-terminated line appended to standard output.
WriteLine(out, line) == Append(out, line)

\* The status the operating system sees for sys.exit(code).
ExitByte(code) == code % 256

\* The status of a run ended by an uncaught exception.
UncaughtStatus == 1

(***************************************************************************)
(* Initial state: the interpreter is about to execute line 9.  The exit    *)
(* status is a byte once the process has ended and -1 until then.          *)
(***************************************************************************)
Init ==
    /\ file \in FileStates
    /\ doc \in IF file = "json" THEN Documents ELSE {Unbound}
    /\ pc = "open"
    /\ handle = "none"
    /\ data = Unbound
    /\ i = 0
    /\ r = Unbound
    /\ article = Unbound
    /\ resistance = Unbound
    /\ stdout = <<>>
    /\ exc = NoExc
    /\ status = -1

\* Line 9: open('../resistance.json', 'r', encoding="utf-8").
Open ==
    /\ pc = "open"
    /\ IF file = "missing"
         THEN /\ exc' = Raise("FileNotFoundError")
              /\ pc' = "unwind"
              /\ UNCHANGED handle
         ELSE IF file = "denied"
         THEN /\ exc' = Raise("PermissionError")
              /\ pc' = "unwind"
              /\ UNCHANGED handle
         ELSE /\ handle' = "open"
              /\ pc' = "load"
              /\ UNCHANGED exc
    /\ UNCHANGED <<file, doc, data, i, r, article, resistance, stdout, status>>

\* Variant of Load: the header is printed before the document is parsed.
LoadAfterHeader ==
    /\ pc = "load"
    /\ stdout' = WriteLine(stdout, Header)
    /\ IF file = "badenc"
         THEN /\ exc' = Raise("UnicodeDecodeError")
              /\ pc' = "with_exit"
              /\ UNCHANGED data
         ELSE IF file = "badjson"
         THEN /\ exc' = Raise("JSONDecodeError")
              /\ pc' = "with_exit"
              /\ UNCHANGED data
         ELSE /\ data' = doc
              /\ pc' = "for"
              /\ UNCHANGED exc
    /\ UNCHANGED <<file, doc, handle, i, r, article, resistance, status>>

\* Line 10: data = json.load(file).
Load ==
    /\ pc = "load"
    /\ IF file = "badenc"
         THEN /\ exc' = Raise("UnicodeDecodeError")
              /\ pc' = "with_exit"
              /\ UNCHANGED data
         ELSE IF file = "badjson"
         THEN /\ exc' = Raise("JSONDecodeError")
              /\ pc' = "with_exit"
              /\ UNCHANGED data
         ELSE /\ data' = doc
              /\ pc' = "header"
              /\ UNCHANGED exc
    /\ UNCHANGED <<file, doc, handle, i, r, article, resistance, stdout, status>>

\* Variant of PrintHeader: the header is printed only when there are records.
PrintHeaderIfRecords ==
    /\ pc = "header"
    /\ stdout' = IF data.t = "array" /\ data.v = <<>>
                   THEN stdout
                   ELSE WriteLine(stdout, Header)
    /\ pc' = "for"
    /\ UNCHANGED <<file, doc, handle, data, i, r, article, resistance, exc, status>>

\* Line 12: print("article;resistance").
PrintHeader ==
    /\ pc = "header"
    /\ stdout' = WriteLine(stdout, Header)
    /\ pc' = "for"
    /\ UNCHANGED <<file, doc, handle, data, i, r, article, resistance, exc, status>>

\* Variant of ForNext: the loop stops one record early.
ForNextStopsEarly ==
    /\ pc = "for"
    /\ IF data.t # "array"
         THEN /\ exc' = Raise("TypeError")
              /\ pc' = "with_exit"
              /\ UNCHANGED <<i, r>>
         ELSE IF i + 1 < Len(data.v)
         THEN /\ r' = data.v[i + 1]
              /\ i' = i + 1
              /\ pc' = "article"
              /\ UNCHANGED exc
         ELSE /\ pc' = "exit0"
              /\ UNCHANGED <<i, r, exc>>
    /\ UNCHANGED <<file, doc, handle, data, article, resistance, stdout, status>>

\* Line 13: for r in data -- fetch the next record or leave the loop.
ForNext ==
    /\ pc = "for"
    /\ IF data.t # "array"
         THEN /\ exc' = Raise("TypeError")
              /\ pc' = "with_exit"
              /\ UNCHANGED <<i, r>>
         ELSE IF i < Len(data.v)
         THEN /\ r' = data.v[i + 1]
              /\ i' = i + 1
              /\ pc' = "article"
              /\ UNCHANGED exc
         ELSE /\ pc' = "exit0"
              /\ UNCHANGED <<i, r, exc>>
    /\ UNCHANGED <<file, doc, handle, data, article, resistance, stdout, status>>

\* Variant of Subscript: a missing element of an array reads as the empty
\* string instead of raising.
SubscriptOrEmpty(rec, k) ==
    CASE rec.t = "number" -> Raise("TypeError")
      [] rec.t = "object" -> Raise("KeyError")
      [] rec.t = "array" -> IF k < Len(rec.v) THEN rec.v[k + 1]
                                              ELSE JStr("")

\* r[k] for the 0-based index k: the element, or the exception raised.
Subscript(rec, k) ==
    CASE rec.t = "number" -> Raise("TypeError")
      [] rec.t = "object" -> Raise("KeyError")
      [] rec.t = "array" -> IF k < Len(rec.v) THEN rec.v[k + 1]
                                              ELSE Raise("IndexError")

IsRaise(x) == x.t \in {"TypeError", "KeyError", "IndexError"}

\* Line 14: article = r[0].
GetArticle ==
    /\ pc = "article"
    /\ LET x == Subscript(r, 0)
       IN  IF IsRaise(x)
             THEN /\ exc' = x
                  /\ pc' = "with_exit"
                  /\ UNCHANGED article
             ELSE /\ article' = x
                  /\ pc' = "resistance"
                  /\ UNCHANGED exc
    /\ UNCHANGED <<file, doc, handle, data, i, r, resistance, stdout, status>>

\* Variant of GetResistance: the last element is read (r[-1]) instead of r[1].
GetResistanceLast ==
    /\ pc = "resistance"
    /\ LET x == Subscript(r, IF r.t = "array" /\ Len(r.v) >= 2 THEN Len(r.v) - 1 ELSE 1)
       IN  IF IsRaise(x)
             THEN /\ exc' = x
                  /\ pc' = "with_exit"
                  /\ UNCHANGED resistance
             ELSE /\ resistance' = x
                  /\ pc' = "print"
                  /\ UNCHANGED exc
    /\ UNCHANGED <<file, doc, handle, data, i, r, article, stdout, status>>

\* Line 15: resistance = r[1].
GetResistance ==
    /\ pc = "resistance"
    /\ LET x == Subscript(r, 1)
       IN  IF IsRaise(x)
             THEN /\ exc' = x
                  /\ pc' = "with_exit"
                  /\ UNCHANGED resistance
             ELSE /\ resistance' = x
                  /\ pc' = "print"
                  /\ UNCHANGED exc
    /\ UNCHANGED <<file, doc, handle, data, i, r, article, stdout, status>>

\* Variant of PrintRow: sys.exit(0) is indented into the loop body, so the
\* success exit follows the first row.
PrintRowThenExit ==
    /\ pc = "print"
    /\ stdout' = WriteLine(stdout, Format(article) \o ";" \o Format(resistance))
    /\ pc' = "exit0"
    /\ UNCHANGED <<file, doc, handle, data, i, r, article, resistance, exc, status>>

\* Line 17: print(f"{article};{resistance}").
PrintRow ==
    /\ pc = "print"
    /\ stdout' = WriteLine(stdout, Format(article) \o ";" \o Format(resistance))
    /\ pc' = "for"
    /\ UNCHANGED <<file, doc, handle, data, i, r, article, resistance, exc, status>>

\* Variant of SysExit: line 19 raises nothing, so the with block ends
\* normally.
SysExitFallsThrough ==
    /\ pc \in {"exit0", "exitm1"}
    /\ exc' = IF pc = "exit0" THEN exc ELSE SystemExit(-1)
    /\ pc' = IF pc = "exit0" THEN "with_exit" ELSE "unwind"
    /\ UNCHANGED <<file, doc, handle, data, i, r, article, resistance, stdout, status>>

\* Lines 19 and 20: sys.exit(0) inside the with block, sys.exit(-1) after it.
\* sys.exit raises SystemExit; inside the block it leaves through __exit__.
SysExit ==
    /\ pc \in {"exit0", "exitm1"}
    /\ exc' = SystemExit(IF pc = "exit0" THEN 0 ELSE -1)
    /\ pc' = IF pc = "exit0" THEN "with_exit" ELSE "unwind"
    /\ UNCHANGED <<file, doc, handle, data, i, r, article, resistance, stdout, status>>

\* Variant of WithExit: the file is closed by a plain close() at the end of
\* the block, which a failure inside the block skips.
WithExitLeaksOnFailure ==
    /\ pc = "with_exit"
    /\ handle' = IF exc.t \in {"none", "SystemExit"} THEN "closed" ELSE handle
    /\ pc' = IF exc = NoExc THEN "exitm1" ELSE "unwind"
    /\ UNCHANGED <<file, doc, data, i, r, article, resistance, stdout, exc, status>>

\* Leaving the with block of line 9: the handle is closed; a pending
\* exception propagates, otherwise execution continues at line 20.
WithExit ==
    /\ pc = "with_exit"
    /\ handle' = "closed"
    /\ pc' = IF exc = NoExc THEN "exitm1" ELSE "unwind"
    /\ UNCHANGED <<file, doc, data, i, r, article, resistance, stdout, exc, status>>

\* Variant of Terminate: every ending reports status 0.
TerminateAlwaysZero ==
    /\ pc = "unwind"
    /\ status' = IF exc.t = "SystemExit" THEN ExitByte(exc.code) ELSE 0
    /\ pc' = "done"
    /\ UNCHANGED <<file, doc, handle, data, i, r, article, resistance, stdout, exc>>

\* Variant of Terminate: output is buffered and lost when the run dies of an
\* uncaught exception.
TerminateDropsOutput ==
    /\ pc = "unwind"
    /\ status' = IF exc.t = "SystemExit" THEN ExitByte(exc.code) ELSE UncaughtStatus
    /\ stdout' = IF exc.t = "SystemExit" THEN stdout ELSE <<>>
    /\ pc' = "done"
    /\ UNCHANGED <<file, doc, handle, data, i, r, article, resistance, exc>>

\* The exception reaches the interpreter: SystemExit gives its code,
\* anything else a traceback on standard error and status 1.
Terminate ==
    /\ pc = "unwind"
    /\ status' = IF exc.t = "SystemExit" THEN ExitByte(exc.code) ELSE UncaughtStatus
    /\ pc' = "done"
    /\ UNCHANGED <<file, doc, handle, data, i, r, article, resistance, stdout, exc>>

Next ==
    \/ Open
    \/ Load
    \/ PrintHeader
    \/ ForNext
    \/ GetArticle
    \/ GetResistance
    \/ PrintRow
    \/ SysExit
    \/ WithExit
    \/ Terminate

Spec == Init /\ [][Next]_vars

\* The interpreter always executes the next statement.
FairSpec == Spec /\ WF_vars(Next)

(***************************************************************************)
(* Vocabulary of the properties.                                           *)
(***************************************************************************)
Terminated == pc = "done"

\* The run ended by an exception other than SystemExit.
Uncaught == exc.t \notin {"none", "SystemExit"}

\* The file was opened and parsed, and the parsed value is an array.
ParsedArray == file = "json" /\ doc.t = "array"

\* The number of positional elements of a record; a number or an object
\* has none (r[0] fails on it as on an empty array).
NumElems(rec) == IF rec.t = "array" THEN Len(rec.v) ELSE 0

WellFormed(rec) == NumElems(rec) >= 2

AllWellFormed == ParsedArray /\ \A k \in 1..Len(doc.v) : WellFormed(doc.v[k])

HasShort == ParsedArray /\ \E k \in 1..Len(doc.v) : ~WellFormed(doc.v[k])

\* The 1-based position of the first record with fewer than two elements.
FirstShort ==
    CHOOSE k \in 1..Len(doc.v) :
        /\ ~WellFormed(doc.v[k])
        /\ \A j \in 1..(k - 1) : WellFormed(doc.v[j])

\* The row a well-formed record stands for: elements 0 and 1, nothing else.
Row(rec) == Format(rec.v[1]) \o ";" \o Format(rec.v[2])

\* The header followed by the rows of the first n records.
HeaderAndRows(n) == <<Header>> \o [k \in 1..n |-> Row(doc.v[k])]

(***************************************************************************)
(* C1: when every record has at least two elements, the k-th line after    *)
(* the header is element 0 of the k-th record, ";", element 1 of it, in    *)
(* input order and at most one per record fetched; elements beyond the     *)
(* second never show.                                                      *)
(***************************************************************************)
C1_RowsInOrder ==
    AllWellFormed =>
        /\ Len(stdout) <= i + 1
        /\ \A k \in 2..Len(stdout) : stdout[k] = Row(doc.v[k - 1])

C1_Witness ==
    /\ Terminated
    /\ AllWellFormed
    /\ Len(doc.v) = 2
    /\ Len(doc.v[1].v) = 3
    /\ doc.v[1].v[3] # doc.v[1].v[2]
    /\ stdout = <<Header, "R1;220", "220;R1">>

(***************************************************************************)
(* C2: for a parsed array, the empty one included, the first line on       *)
(* standard output is "article;resistance" and no row precedes it.         *)
(***************************************************************************)
C2_HeaderFirst ==
    /\ stdout # <<>> => stdout[1] = Header
    /\ ParsedArray /\ pc \notin {"open", "load", "header"} => stdout # <<>>

C2_Witness ==
    /\ Terminated
    /\ ParsedArray
    /\ doc.v = <<>>
    /\ stdout = <<Header>>

(***************************************************************************)
(* C3: for an array of N well-formed records the run terminates with       *)
(* exactly N+1 lines written: the header and one row per record.           *)
(***************************************************************************)
C3_RowCount ==
    AllWellFormed ~>
        (/\ AllWellFormed
         /\ Terminated
         /\ Len(stdout) = Len(doc.v) + 1
         /\ stdout = HeaderAndRows(Len(doc.v)))

C3_Witness ==
    /\ Terminated
    /\ AllWellFormed
    /\ Len(doc.v) = 2
    /\ Len(stdout) = 3

(***************************************************************************)
(* C4: once the loop has run to its end the process ends with status 0,    *)
(* and status 0 is only ever reported with the header and every row        *)
(* written.                                                                *)
(***************************************************************************)
C4_SuccessExit ==
    /\ [](pc = "exit0" => AllWellFormed /\ stdout = HeaderAndRows(Len(doc.v)))
    /\ [](status = 0 => AllWellFormed /\ stdout = HeaderAndRows(Len(doc.v)))
    /\ (pc = "exit0" ~> (Terminated /\ status = 0))
    /\ (AllWellFormed ~> (Terminated /\ status = 0))

C4_Witness ==
    /\ Terminated
    /\ status = 0
    /\ exc = SystemExit(0)
    /\ Len(stdout) = 3

(***************************************************************************)
(* C5: a file that cannot be opened, decoded or parsed ends the run by an  *)
(* uncaught exception, with a status that is neither 0 nor that of         *)
(* sys.exit(-1), and nothing is written to standard output.                *)
(***************************************************************************)
C5_InputFailure ==
    file # "json" =>
        /\ stdout = <<>>
        /\ Terminated => /\ Uncaught
                         /\ status # 0
                         /\ status # ExitByte(-1)

C5_Witness ==
    /\ Terminated
    /\ file = "badjson"
    /\ exc = Raise("JSONDecodeError")
    /\ status = 1

(***************************************************************************)
(* C6: a record with fewer than two elements ends the run, when it is      *)
(* reached, by an uncaught exception and a non-zero status; no line is     *)
(* written for it and the success exit is not taken.                       *)
(***************************************************************************)
C6_ShortRecordFails ==
    HasShort =>
        /\ Len(stdout) <= FirstShort
        /\ \A k \in 2..Len(stdout) : stdout[k] = Row(doc.v[k - 1])
        /\ pc # "exit0"
        /\ exc # SystemExit(0)
        /\ Terminated => /\ Uncaught
                         /\ status # 0
                         /\ i = FirstShort

C6_Witness ==
    /\ Terminated
    /\ HasShort
    /\ doc.v[1] = JArray(<<JStr("R1")>>)
    /\ exc = Raise("IndexError")
    /\ stdout = <<Header>>

(***************************************************************************)
(* C7: sys.exit(-1) of line 20 is never executed: the with block is only   *)
(* left with an exception pending.                                         *)
(***************************************************************************)
C7_FailureExitUnreachable ==
    /\ pc # "exitm1"
    /\ exc # SystemExit(-1)
    /\ status # ExitByte(-1)
    /\ pc = "unwind" => exc # NoExc

C7_Witness ==
    /\ pc = "unwind"
    /\ handle = "closed"
    /\ exc = SystemExit(0)

(***************************************************************************)
(* C8: a handle that was acquired is released before the process ends,     *)
(* on the success exit and on every failure; a handle that was never       *)
(* acquired is never released.                                             *)
(***************************************************************************)
C8_HandleReleased ==
    /\ Terminated =>
           handle = IF file \in {"missing", "denied"} THEN "none" ELSE "closed"
    /\ pc = "unwind" => handle # "open"
    /\ file \in {"missing", "denied"} => handle = "none"

C8_Witness ==
    /\ Terminated
    /\ handle = "closed"
    /\ exc = Raise("IndexError")

(***************************************************************************)
(* C9 as stated: a run that fails with an uncaught input-access, parse or  *)
(* shape failure still ends with exit status 0.                            *)
(***************************************************************************)
C9_UncaughtExitsZero ==
    Terminated /\ Uncaught => status = 0

(***************************************************************************)
(* C9 amended: exit status 0 is produced on normal completion only; a run  *)
(* that fails with an uncaught input-access, parse or shape failure ends   *)
(* with the non-zero status 1.                                             *)
(***************************************************************************)
C9_ZeroOnlyOnCompletion ==
    Terminated =>
        /\ Uncaught => status = 1
        /\ status = 0 <=> exc = SystemExit(0)
        /\ status = 0 <=> AllWellFormed

C9_Witness ==
    /\ Terminated
    /\ Uncaught
    /\ exc = Raise("FileNotFoundError")
    /\ status = 1

(***************************************************************************)
(* C10: output is not rolled back: when the first record with fewer than   *)
(* two elements is the k-th (0-based), the run ends with the header and    *)
(* the rows of records 0..k-1 on standard output, in order, and nothing    *)
(* else.                                                                   *)
(***************************************************************************)
C10_PartialOutputKept ==
    HasShort /\ Terminated => stdout = HeaderAndRows(FirstShort - 1)

C10_Witness ==
    /\ Terminated
    /\ HasShort
    /\ FirstShort = 2
    /\ stdout = <<Header, "R1;220">>

====
